---- MODULE Spec2Model ----
(***************************************************************************)
(* Model of the upload service: the two revisions of the video upload      *)
(* handler, the two revisions of the thumbnail upload handler, and the     *)
(* helpers in assets.go.                                                    *)
(*                                                                         *)
(* Strings are sequences of tokens.  The delimiters the code looks at      *)
(* ("/", ",", ";", ".") are tokens of their own, so that splitting,        *)
(* formatting and cutting are computed the way the code computes them.     *)
(***************************************************************************)
EXTENDS Integers, Sequences, FiniteSets, TLC

\* an absent error
NIL == "nil"
\* a nil *string, a nil *os.File name or an unset string local
NilStr == <<"<nil>">>

----------------------------------------------------------------------------
(* Bounds of the model *)

\* widths and heights 1..MaxDim are classified exhaustively
MaxDim == 80
\* number of upload requests the service handles
NumReqs == 1
\* number of upload requests in the runs that study two requests for one video
NumConcurrent == 2
\* number of distinct suffixes os.CreateTemp can draw for a scratch file
NumTmpNames == 2
\* longest bucket and key, in tokens, of the references encoded and decoded
MaxRefLen == 2

----------------------------------------------------------------------------
(* strings *)

\* fmt.Sprintf with only %s verbs: concatenation of the pieces
Concat(parts) ==
  LET RECURSIVE cat(_)
      cat(i) == IF i > Len(parts) THEN <<>> ELSE parts[i] \o cat(i + 1)
  IN cat(1)

\* index of the first occurrence of token sep in s, 0 when absent
IndexOf(s, sep) ==
  IF \E i \in 1..Len(s) : s[i] = sep
  THEN CHOOSE i \in 1..Len(s) : s[i] = sep /\ \A j \in 1..(i - 1) : s[j] # sep
  ELSE 0

\* strings.Split(s, sep): the pieces of s between occurrences of sep
RECURSIVE Split(_, _)
Split(s, sep) ==
  LET i == IndexOf(s, sep)
  IN IF i = 0 THEN <<s>>
     ELSE <<SubSeq(s, 1, i - 1)>> \o Split(SubSeq(s, i + 1, Len(s)), sep)

----------------------------------------------------------------------------
(* assets.go *)

\* number of random bytes in an asset id
AssetIDLen == 32

\* the URL-safe base64 alphabet of encoding/base64
encodeURL ==
  << "A","B","C","D","E","F","G","H","I","J","K","L","M","N","O","P",
     "Q","R","S","T","U","V","W","X","Y","Z","a","b","c","d","e","f",
     "g","h","i","j","k","l","m","n","o","p","q","r","s","t","u","v",
     "w","x","y","z","0","1","2","3","4","5","6","7","8","9","-","_" >>

\* base64.URLEncoding.EncodeToString: 3 bytes become 4 characters, the
\* last partial group is padded with "="
RECURSIVE EncodeToString(_)
EncodeToString(b) ==
  LET ch(n) == encodeURL[n + 1]
  IN IF Len(b) = 0 THEN <<>>
     ELSE IF Len(b) = 1
       THEN << ch(b[1] \div 4), ch((b[1] % 4) * 16), "=", "=" >>
     ELSE IF Len(b) = 2
       THEN << ch(b[1] \div 4), ch((b[1] % 4) * 16 + b[2] \div 16),
               ch((b[2] % 16) * 4), "=" >>
     ELSE << ch(b[1] \div 4), ch((b[1] % 4) * 16 + b[2] \div 16),
             ch((b[2] % 16) * 4 + b[3] \div 64), ch(b[3] % 64) >>
          \o EncodeToString(SubSeq(b, 4, Len(b)))

\* the extension taken from the second piece whenever there is one
mediaTypeToExtLoose(mediaType) ==
  LET parts == Split(mediaType, "/")
  IN IF Len(parts) < 2 THEN <<".", "bin">> ELSE <<".">> \o parts[2]

mediaTypeToExt(mediaType) ==
  LET parts == Split(mediaType, "/")
  IN IF Len(parts) # 2 THEN <<".", "bin">> ELSE <<".">> \o parts[2]

\* getAssetPath, with the 32 bytes rand.Read delivered as a parameter
getAssetPath(assetID, mediaType) ==
  Concat(<< EncodeToString(assetID), mediaTypeToExt(mediaType) >>)

\* getObjectURL: the permanent URL of an object
getObjectURL(bucket, region, key) ==
  Concat(<< <<"https://">>, bucket, <<".s3.">>, region, <<".amazonaws.com/">>, key >>)

\* getAssetDiskPath: filepath.Join(cfg.assetsRoot, assetPath)
getAssetDiskPath(assetsRoot, assetPath) ==
  Concat(<< assetsRoot, <<"/">>, assetPath >>)

\* getAssetURL
getAssetURL(port, assetPath) ==
  Concat(<< <<"http://localhost:">>, port, <<"/">>, <<"assets", "/">>, assetPath >>)

\* getAssetDiskPathFromURL: strings.Cut(assetURL, urlBase), the text after the
\* first occurrence of the base URL
getAssetDiskPathFromURL(port, assetURL) ==
  LET urlBase == Concat(<< <<"http://localhost:">>, port, <<"/">> >>)
      n       == Len(urlBase)
      at(i)   == i + n - 1 <= Len(assetURL) /\ SubSeq(assetURL, i, i + n - 1) = urlBase
      hits    == { i \in 1..Len(assetURL) : at(i) }
  IN IF hits = {}
     THEN [path |-> <<>>, err |-> "Invalid asset URL. Missing expected base URL"]
     ELSE LET i == CHOOSE k \in hits : \A j \in hits : k <= j
          IN [path |-> SubSeq(assetURL, i + n, Len(assetURL)), err |-> NIL]

----------------------------------------------------------------------------
(* aspect ratio: the tolerance-band revision and the exact-ratio revision *)

\* float64(width)/float64(height) lies strictly between lo/den and hi/den.
\* A zero height gives +Inf, -Inf or NaN, which lie in no band.
RatioBetween(width, height, lo, hi, den) ==
  /\ height # 0
  /\ LET s == IF height > 0 THEN 1 ELSE -1
     IN /\ lo * height * s < den * width * s
        /\ den * width * s < hi * height * s

\* math.Abs(sizeRatio-1.777) < 0.2 on float64 values.  For integer operands
\* the quotient is within one rounding of width/height, so the comparison
\* can differ from the exact one only where |width/height - 1.777| is
\* exactly 0.2 (1.577 and 1.977); there the float64 difference is not below
\* the float64 0.2.
AbsBelow169(width, height) == RatioBetween(width, height, 1577, 1977, 1000)

\* math.Abs(sizeRatio-0.5625) < 0.2 on float64 values.  At width/height =
\* 0.7625 = 61/80 the float64 difference 0.7625-0.5625 is
\* 0.19999999999999996, which is below the float64 0.2; at 0.3625 it is not.
AbsBelow916(width, height) ==
  \/ RatioBetween(width, height, 3625, 7625, 10000)
  \/ (height # 0 /\ 80 * width = 61 * height)

\* ffprobe's outcome: run tells whether the tool ran and exited zero, json
\* whether its output is well-formed, streams the parsed streams
getVideoAspectRatio(out) ==
  IF ~out.run THEN [ratio |-> "", err |-> "exit status 1"]
  ELSE IF ~out.json THEN [ratio |-> "", err |-> "Couldn't parse ffprobe output"]
  ELSE IF Len(out.streams) = 0 THEN [ratio |-> "", err |-> "No video streams found"]
  ELSE LET width == out.streams[1].Width
           height == out.streams[1].Height
       IN IF AbsBelow169(width, height) THEN [ratio |-> "16:9", err |-> NIL]
          ELSE IF AbsBelow916(width, height) THEN [ratio |-> "9:16", err |-> NIL]
          ELSE [ratio |-> "other", err |-> NIL]

\* gcd of handler_upload_video.go (Go's % truncates toward zero; the
\* operands reaching it are positive)
RECURSIVE gcd(_, _)
gcd(a, b) ==
  IF b # 0
  THEN LET r == a % b IN IF r = 0 THEN b ELSE gcd(b, r)
  ELSE a

\* getVideoAspectRatio of handler_upload_video.go: exact reduced ratio.
\* Indexing Streams[0] of an empty slice is a run-time panic.
getVideoAspectRatioGcd(out) ==
  IF ~out.run THEN [ratio |-> "", err |-> "exit status 1"]
  ELSE IF ~out.json THEN [ratio |-> "", err |-> "invalid character"]
  ELSE IF Len(out.streams) = 0 THEN [ratio |-> "", err |-> "panic"]
  ELSE LET width == out.streams[1].Width
           height == out.streams[1].Height
       IN IF width < 1 \/ height < 1
          THEN [ratio |-> "", err |-> "Couldn't get aspect ratio, streams invalid width/height"]
          ELSE LET g == gcd(width, height)
                   widthRatio == width \div g
                   heightRatio == height \div g
               IN IF widthRatio = 16 /\ heightRatio = 9 THEN [ratio |-> "16:9", err |-> NIL]
                  ELSE IF widthRatio = 9 /\ heightRatio = 16 THEN [ratio |-> "9:16", err |-> NIL]
                  ELSE [ratio |-> "other", err |-> NIL]

----------------------------------------------------------------------------
(* the stored video reference and the presigned URL *)

\* 24*time.Hour
PresignExpires == <<"24h0m0s">>

\* generatePresignedURL: the URL the SDK's presign client returns for
\* (bucket, key), carrying its expiry and a signature
generatePresignedURL(bucket, key, expireTime) ==
  Concat(<< <<"https://">>, bucket, <<".s3.amazonaws.com/">>, key,
            <<"?", "X-Amz-Expires=">>, expireTime, <<"&", "X-Amz-Signature=">> >>)

\* the reference presigned when it is written instead of when it is read
FileURLPresigned(bucket, fileKey) == generatePresignedURL(bucket, fileKey, PresignExpires)

\* fmt.Sprintf("%s,%s", cfg.s3Bucket, fileKey)
FileURL(bucket, fileKey) == Concat(<< bucket, <<",">>, fileKey >>)

\* the decoding in dbVideoToSignedVideo: strings.Split(*video.VideoURL, ","),
\* an error for fewer than two pieces, else the first two pieces
SplitVideoURL(videoURL) ==
  LET vidURL == Split(videoURL, ",")
  IN IF Len(vidURL) < 2
     THEN [bucket |-> <<>>, key |-> <<>>,
           err |-> "Invalid Video URL, expected format <bucket>,<key>"]
     ELSE [bucket |-> vidURL[1], key |-> vidURL[2], err |-> NIL]

\* dbVideoToSignedVideo; presignOK tells whether the presign call succeeds.
\* The video is a struct value: the result is a copy, the argument is not
\* written to.
dbVideoToSignedVideo(video, presignOK) ==
  IF video.VideoURL = NilStr
  THEN [video |-> video, err |-> "Missing video url"]
  ELSE LET ref == SplitVideoURL(video.VideoURL)
       IN IF ref.err # NIL
          THEN [video |-> video, err |-> ref.err]
          ELSE IF ~presignOK
          THEN [video |-> video, err |-> "presign failed"]
          ELSE [video |-> [video EXCEPT !.VideoURL =
                             generatePresignedURL(ref.bucket, ref.key, PresignExpires)],
                err |-> NIL]

----------------------------------------------------------------------------
(* configuration (apiConfig) *)

s3Bucket == <<"tubely-bucket">>
s3Region == <<"us-east-1">>
port == <<"8091">>
assetsRoot == <<"assets">>

----------------------------------------------------------------------------
(* mime.ParseMediaType on a Content-Type header: the media type is the text
   before the first ";"; it must be a token, optionally followed by "/" and
   another token *)
ParseMediaType(header) ==
  LET base == Split(header, ";")[1]
  IN IF Len(base) = 0 \/ base[1] = "/"
     THEN [mediatype |-> <<>>, err |-> "mime: no media type"]
     ELSE IF Len(base) = 1 THEN [mediatype |-> base, err |-> NIL]
     ELSE IF base[2] # "/"
     THEN [mediatype |-> <<>>, err |-> "mime: expected slash after first token"]
     ELSE IF Len(base) = 2 \/ base[3] = "/"
     THEN [mediatype |-> <<>>, err |-> "mime: expected token after slash"]
     ELSE IF Len(base) > 3
     THEN [mediatype |-> <<>>, err |-> "mime: unexpected content after media subtype"]
     ELSE [mediatype |-> base, err |-> NIL]

----------------------------------------------------------------------------
(* state *)

VARIABLES
  req,     \* per request: position in its handler, locals, descriptors, defers, responses
  db,      \* the record of the one video in the record store
  disk,    \* files on local disk: pairs <<path, request that created it>>
  s3,      \* objects in the bucket: pairs <<key, request that put it>>
  fnIn,    \* argument of the helper under study (helper specifications only)
  fnOut    \* its result

vars == <<req, db, disk, s3, fnIn, fnOut>>

\* the requests of a run
Reqs == DOMAIN req
Users == {"owner", "other"}

\* the four handlers: handlerUploadVideo with remux and presigned response,
\* handlerUploadVideo answering with the object URL, handlerUploadThumbnail
\* with content-type validation and clean-up of the previous thumbnail,
\* handlerUploadThumbnail taking the raw Content-Type header
handlerUploadVideo ==
  << "Authenticate", "GetVideo", "CheckOwner", "FormFile", "MediaType",
     "CreateTemp", "DeferTemp", "CopyTemp", "Probe", "Remux", "OpenProcessed",
     "PutObject", "UpdateVideo", "Sign" >>
handlerUploadVideoObjectURL ==
  << "Authenticate", "GetVideo", "CheckOwner", "FormFile", "MediaType",
     "CreateTemp", "DeferTemp", "CopyTemp", "Seek", "Probe",
     "PutObject", "UpdateVideo", "Respond" >>
handlerUploadThumbnail ==
  << "Authenticate", "FormFile", "MediaType", "GetVideo", "CheckOwner",
     "CreateAsset", "CopyAsset", "UpdateThumbnail", "RemoveOld" >>
handlerUploadThumbnailRaw ==
  << "Authenticate", "FormFile", "RawMediaType", "GetVideo", "CheckOwner",
     "CreateAsset", "CopyAsset", "UpdateThumbnailRaw", "Respond" >>

Handlers == {"video", "videoObjectURL", "thumbnail", "thumbnailRaw"}
VideoHandlers == {"video", "videoObjectURL"}
ThumbnailHandlers == {"thumbnail", "thumbnailRaw"}

Steps(h) ==
  CASE h = "video" -> handlerUploadVideo
    [] h = "videoObjectURL" -> handlerUploadVideoObjectURL
    [] h = "thumbnail" -> handlerUploadThumbnail
    [] h = "thumbnailRaw" -> handlerUploadThumbnailRaw

\* the statement after the current one, in the handler's order
NextPc(h, pc) ==
  LET i == CHOOSE k \in 1..Len(Steps(h)) : Steps(h)[k] = pc
  IN Steps(h)[i + 1]

Terminal == {"returned", "panicked"}

NoVideo == [UserID |-> NIL, VideoURL |-> NilStr, ThumbnailURL |-> NilStr]

\* Content-Type headers a part may carry
Headers ==
  { <<"video", "/", "mp4">>, <<"image", "/", "jpeg">>, <<"image", "/", "png">>,
    <<"image", "/", "gif">>, <<>> }

\* what ffprobe may report
ProbeDims == { <<1280, 720>>, <<1080, 1920>>, <<1366, 768>>, <<0, 720>> }
ProbeOutputs ==
  { [run |-> FALSE, json |-> FALSE, streams |-> <<>>],
    [run |-> TRUE, json |-> FALSE, streams |-> <<>>],
    [run |-> TRUE, json |-> TRUE, streams |-> <<>>] }
  \cup { [run |-> TRUE, json |-> TRUE,
          streams |-> << [Width |-> d[1], Height |-> d[2]] >>] : d \in ProbeDims }

\* the probe has not run
NoProbe == [run |-> FALSE, json |-> FALSE, streams |-> <<>>]

\* 32-byte values rand.Read may deliver
RandBytes ==
  { [i \in 1..AssetIDLen |-> (a * i + b) % 256] : a \in {0, 7, 73}, b \in {0, 251} }
RandIDs ==
  { [i \in 1..AssetIDLen |-> (a * i) % 256] : a \in {0, 7} }

\* os.CreateTemp("", "tubely-upload.mp4"): the pattern followed by a random
\* number, in the temporary directory
TmpPaths == { <<"/tmp/", "tubely-upload.mp4", ToString(n)>> : n \in 1..NumTmpNames }

\* the thumbnail a video may already have when the uploads start
OldThumbnail == <<"old-thumbnail", ".", "png">>
\* a thumbnail reference that does not start with this service's base URL
\* (set under another port or host); none of this service's files belongs to it
ForeignThumbnailURL == <<"http://localhost:", "8080", "/", "assets", "/", "t", ".", "png">>

Paths(d) == { f[1] : f \in d }
\* the file at path p is created (or truncated) by request r
CreateFile(d, p, r) == { f \in d : f[1] # p } \cup { <<p, r>> }
RemoveFile(d, p) == { f \in d : f[1] # p }

\* a request before its handler has run
NewRequest(h) ==
  [ pc |-> "Authenticate", handler |-> h, userID |-> NIL,
    header |-> NilStr, mediaType |-> NilStr, video |-> NoVideo,
    fileTmp |-> NilStr, probed |-> FALSE, probeOut |-> NoProbe,
    aspectRatio |-> "", fileKey |-> NilStr,
    fileProcessedPath |-> NilStr, assetPath |-> NilStr, thumbnailURLOld |-> NilStr,
    fds |-> {}, defers |-> <<>>, resp |-> <<>>, committed |-> FALSE ]

NoFn == [fn |-> "none"]

\* The requests differ only in their number, so the handlers are given to
\* them in one order
HandlerOrder == <<"video", "videoObjectURL", "thumbnail", "thumbnailRaw">>
HandlerIndex(h) == CHOOSE i \in 1..Len(HandlerOrder) : HandlerOrder[i] = h

InitPipeline(n) ==
  /\ req \in [1..n -> { NewRequest(h) : h \in Handlers }]
  /\ \A r \in 1..(n - 1) :
       HandlerIndex(req[r].handler) <= HandlerIndex(req[r + 1].handler)
  /\ \E t \in {NilStr, getAssetURL(port, OldThumbnail), ForeignThumbnailURL} :
       /\ db = [UserID |-> "owner", VideoURL |-> NilStr, ThumbnailURL |-> t]
       /\ disk = IF t = getAssetURL(port, OldThumbnail)
                 THEN { <<getAssetDiskPath(assetsRoot, OldThumbnail), 0>> }
                 ELSE {}
  /\ s3 = {}

Init == InitPipeline(NumReqs) /\ fnIn = NoFn /\ fnOut = NoFn

\* two requests for the one video
InitConcurrent == InitPipeline(NumConcurrent) /\ fnIn = NoFn /\ fnOut = NoFn

----------------------------------------------------------------------------
(* the record store (cfg.db), one record per video *)

\* cfg.db.GetVideo(videoID): the whole stored record
dbGetVideo(stored) == stored

\* cfg.db.UpdateVideo(video): the stored record after the update, in which
\* every field has the value of the argument
dbUpdateVideo(stored, video) == video

----------------------------------------------------------------------------
(* responses, return and panic *)

\* respondWithError(w, code, msg, err)
respondWithError(q, code, msg) ==
  [q EXCEPT !.resp = Append(@, [status |-> code, kind |-> "error", msg |-> msg,
                                video |-> NoVideo])]

\* respondWithJSON(w, code, payload) with a string payload
respondWithText(q, code, msg) ==
  [q EXCEPT !.resp = Append(@, [status |-> code, kind |-> "json", msg |-> msg,
                                video |-> NoVideo])]

\* respondWithJSON(w, code, payload) with a video payload
respondWithJSON(q, code, video) ==
  [q EXCEPT !.resp = Append(@, [status |-> code, kind |-> "json", msg |-> "",
                                video |-> video])]

\* the deferred calls run when the handler returns or panics: every deferred
\* Close closes its descriptor, every deferred os.Remove removes its path
FdsAfterDefers(q) ==
  q.fds \ { q.defers[i].fd : i \in { j \in 1..Len(q.defers) : q.defers[j].op = "close" } }
DiskAfterDefers(q, d) ==
  { f \in d : \A i \in 1..Len(q.defers) :
                ~(q.defers[i].op = "remove" /\ q.defers[i].path = f[1]) }

DeferClose(q, fd) == [q EXCEPT !.defers = Append(@, [op |-> "close", fd |-> fd, path |-> <<>>])]
DeferRemove(q, p) == [q EXCEPT !.defers = Append(@, [op |-> "remove", fd |-> "", path |-> p])]

\* the handler leaves with locals q and the disk d its last statement left
Leave(r, q, d, how) ==
  /\ req' = [req EXCEPT ![r] = [q EXCEPT !.pc = how, !.fds = FdsAfterDefers(q),
                                         !.defers = <<>>]]
  /\ disk' = DiskAfterDefers(q, d)

Return(r, q, d) == Leave(r, q, d, "returned")
Panic(r, q, d) == Leave(r, q, d, "panicked")

\* respondWithError followed by return
Fail(r, code, msg) == Return(r, respondWithError(req[r], code, msg), disk)

\* the handler goes on to its next statement with locals q
Goto(r, q) == req' = [req EXCEPT ![r] = [q EXCEPT !.pc = NextPc(q.handler, q.pc)]]

At(r, step) == req[r].pc = step

----------------------------------------------------------------------------
(* statements shared by the handlers *)

\* uuid.Parse, auth.GetBearerToken, auth.ValidateJWT
Authenticate(r) ==
  /\ At(r, "Authenticate")
  /\ \/ Fail(r, 400, "Invalid ID")
     \/ Fail(r, 401, "Couldn't find JWT")
     \/ Fail(r, 401, "Couldn't validate JWT")
     \/ \E u \in Users : Goto(r, [req[r] EXCEPT !.userID = u]) /\ UNCHANGED disk
  /\ UNCHANGED <<db, s3, fnIn, fnOut>>

\* cfg.db.GetVideo(videoID)
GetVideo(r) ==
  /\ At(r, "GetVideo")
  /\ \/ Fail(r, 500, "Couldn't find video")
     \/ Goto(r, [req[r] EXCEPT !.video = dbGetVideo(db)]) /\ UNCHANGED disk
  /\ UNCHANGED <<db, s3, fnIn, fnOut>>

\* the ownership mismatch answered with a success status
CheckOwnerStatusOK(r) ==
  /\ At(r, "CheckOwner")
  /\ IF req[r].video.UserID # req[r].userID
     THEN Return(r, respondWithText(req[r], 200, "Insufficient rights"), disk)
     ELSE Goto(r, req[r]) /\ UNCHANGED disk
  /\ UNCHANGED <<db, s3, fnIn, fnOut>>

\* if video.UserID != userID
CheckOwner(r) ==
  /\ At(r, "CheckOwner")
  /\ IF req[r].video.UserID # req[r].userID
     THEN Return(r, respondWithText(req[r], 401, "Insufficient rights"), disk)
     ELSE Goto(r, req[r]) /\ UNCHANGED disk
  /\ UNCHANGED <<db, s3, fnIn, fnOut>>

\* r.FormFile and defer file.Close()
FormFile(r) ==
  /\ At(r, "FormFile")
  /\ \/ Fail(r, 400, "Unable to parse form file")
     \/ /\ Goto(r, DeferClose([req[r] EXCEPT !.fds = @ \cup {"file"}], "file"))
        /\ UNCHANGED disk
  /\ UNCHANGED <<db, s3, fnIn, fnOut>>

\* the media types a handler accepts
Accepted(h) ==
  IF h \in VideoHandlers THEN { <<"video", "/", "mp4">> }
  ELSE { <<"image", "/", "jpeg">>, <<"image", "/", "png">> }

\* mime.ParseMediaType of the part's Content-Type and the check of the result
MediaType(r) ==
  /\ At(r, "MediaType")
  /\ \E header \in Headers :
       LET parsed == ParseMediaType(header)
           q == [req[r] EXCEPT !.header = header, !.mediaType = parsed.mediatype]
       IN IF parsed.err # NIL
          THEN Return(r, respondWithError(q, 400, "Invalid Content-Type"), disk)
          ELSE IF parsed.mediatype \notin Accepted(q.handler)
          THEN Return(r, respondWithError(q, 400, "Invalid media type"), disk)
          ELSE Goto(r, [q EXCEPT !.header = NilStr]) /\ UNCHANGED disk
  /\ UNCHANGED <<db, s3, fnIn, fnOut>>

----------------------------------------------------------------------------
(* handlerUploadVideo, both revisions *)

\* os.CreateTemp: on failure the error response is written and the handler
\* goes on (there is no return), with fileTmp nil
CreateTemp(r) ==
  /\ At(r, "CreateTemp")
  /\ \/ /\ Goto(r, respondWithError(req[r], 500, "Couldn't create temp file"))
        /\ UNCHANGED disk
     \/ \E p \in TmpPaths \ Paths(disk) :
          /\ Goto(r, [req[r] EXCEPT !.fileTmp = p, !.fds = @ \cup {"fileTmp"}])
          /\ disk' = CreateFile(disk, p, r)
  /\ UNCHANGED <<db, s3, fnIn, fnOut>>

\* defer os.Remove(fileTmp.Name()); defer fileTmp.Close().  The argument
\* fileTmp.Name() is evaluated here: on a nil *os.File it is a nil
\* dereference, a run-time panic
DeferTemp(r) ==
  /\ At(r, "DeferTemp")
  /\ IF req[r].fileTmp = NilStr
     THEN Panic(r, req[r], disk)
     ELSE /\ Goto(r, DeferClose(DeferRemove(req[r], req[r].fileTmp), "fileTmp"))
          /\ UNCHANGED disk
  /\ UNCHANGED <<db, s3, fnIn, fnOut>>

\* io.Copy(fileTmp, file)
CopyTemp(r) ==
  /\ At(r, "CopyTemp")
  /\ \/ Fail(r, 500, "Couldn't save video to disk")
     \/ Goto(r, req[r]) /\ UNCHANGED disk
  /\ UNCHANGED <<db, s3, fnIn, fnOut>>

\* fileTmp.Seek(0, io.SeekStart)
Seek(r) ==
  /\ At(r, "Seek")
  /\ \/ Fail(r, 500, "Couldn't reset file pointer")
     \/ Goto(r, req[r]) /\ UNCHANGED disk
  /\ UNCHANGED <<db, s3, fnIn, fnOut>>

\* the key prefix with the segments of 16:9 and 9:16 exchanged
prefixKeySwapped(aspectRatio) ==
  IF aspectRatio = "16:9" THEN <<"portrait">>
  ELSE IF aspectRatio = "9:16" THEN <<"landscape">>
  ELSE <<"other">>

\* the key prefix chosen from the aspect ratio
prefixKey(aspectRatio) ==
  IF aspectRatio = "16:9" THEN <<"landscape">>
  ELSE IF aspectRatio = "9:16" THEN <<"portrait">>
  ELSE <<"other">>

\* getVideoAspectRatio on the staged file, then the prefixed key:
\* filepath.Join(prefixKey, fileKey) in one revision, prefixKey + fileKey with
\* a prefix ending in "/" in the other
Probe(r) ==
  /\ At(r, "Probe")
  /\ \E out \in ProbeOutputs, assetID \in RandIDs :
       LET q == [req[r] EXCEPT !.probed = TRUE, !.probeOut = out]
           res == IF q.handler = "video" THEN getVideoAspectRatio(out)
                  ELSE getVideoAspectRatioGcd(out)
           key == Concat(<< prefixKey(res.ratio), <<"/">>, getAssetPath(assetID, q.mediaType) >>)
       IN IF res.err = "panic" THEN Panic(r, q, disk)
          ELSE IF res.err # NIL
          THEN Return(r, respondWithError(q, 500, "Couldn't calculate aspect ratio"), disk)
          ELSE /\ Goto(r, [q EXCEPT !.aspectRatio = res.ratio, !.fileKey = key])
               /\ UNCHANGED disk
  /\ UNCHANGED <<db, s3, fnIn, fnOut>>

\* processVideoForFastStart(fileTmp.Name()) and defer os.Remove of its result.
\* ffmpeg writes newPath = filePath + ".processing"; it does not overwrite
\* an existing file.  It may fail before or after creating newPath, and the
\* file it leaves may be empty.
ProcessingPath(filePath) == Concat(<< filePath, <<".processing">> >>)

processVideoForFastStart(r) ==
  /\ At(r, "Remux")
  /\ LET q == req[r]
         newPath == ProcessingPath(q.fileTmp)
         written == CreateFile(disk, newPath, r)
     IN IF newPath \in Paths(disk)
        THEN Fail(r, 500, "Couldn't process video")
        ELSE \/ Fail(r, 500, "Couldn't process video")
             \/ Return(r, respondWithError(q, 500, "Couldn't process video"), written)
             \/ /\ Goto(r, DeferRemove([q EXCEPT !.fileProcessedPath = newPath], newPath))
                /\ disk' = written
  /\ UNCHANGED <<db, s3, fnIn, fnOut>>

\* os.Open(fileProcessedPath) and defer fileProcessed.Close()
OpenProcessed(r) ==
  /\ At(r, "OpenProcessed")
  /\ \/ Fail(r, 500, "Couldn't open processed video")
     \/ /\ Goto(r, DeferClose([req[r] EXCEPT !.fds = @ \cup {"fileProcessed"}],
                              "fileProcessed"))
        /\ UNCHANGED disk
  /\ UNCHANGED <<db, s3, fnIn, fnOut>>

\* cfg.s3Client.PutObject under (cfg.s3Bucket, fileKey)
PutObject(r) ==
  /\ At(r, "PutObject")
  /\ \/ Fail(r, 500, "Error uploading file to S3") /\ UNCHANGED s3
     \/ /\ Goto(r, req[r])
        /\ s3' = { o \in s3 : o[1] # req[r].fileKey } \cup { <<req[r].fileKey, r>> }
        /\ UNCHANGED disk
  /\ UNCHANGED <<db, fnIn, fnOut>>

\* video.VideoURL = &fileURL; cfg.db.UpdateVideo(video): the whole record is
\* written.  fileURL is "<bucket>,<key>" in one revision and the object URL
\* in the other
UpdateVideo(r) ==
  /\ At(r, "UpdateVideo")
  /\ LET q == req[r]
         fileURL == IF q.handler = "video" THEN FileURL(s3Bucket, q.fileKey)
                    ELSE getObjectURL(s3Bucket, s3Region, q.fileKey)
         q2 == [q EXCEPT !.video.VideoURL = fileURL]
     IN \/ Return(r, respondWithError(q2, 500, "Couldn't update video"), disk) /\ UNCHANGED db
        \/ /\ Goto(r, [q2 EXCEPT !.committed = TRUE])
           /\ db' = dbUpdateVideo(db, q2.video)
           /\ UNCHANGED disk
  /\ UNCHANGED <<s3, fnIn, fnOut>>

\* cfg.dbVideoToSignedVideo(video) and the response
Sign(r) ==
  /\ At(r, "Sign")
  /\ \E presignOK \in BOOLEAN :
       LET res == dbVideoToSignedVideo(req[r].video, presignOK)
       IN IF res.err # NIL
          THEN Fail(r, 500, "Couldn't create presigned URL")
          ELSE Return(r, respondWithJSON(req[r], 200, res.video), disk)
  /\ UNCHANGED <<db, s3, fnIn, fnOut>>

\* respondWithJSON(w, http.StatusOK, video)
Respond(r) ==
  /\ At(r, "Respond")
  /\ Return(r, respondWithJSON(req[r], 200, req[r].video), disk)
  /\ UNCHANGED <<db, s3, fnIn, fnOut>>

----------------------------------------------------------------------------
(* handlerUploadThumbnail, both revisions *)

\* mediaType := header.Header.Get("Content-Type"), rejected only when empty
RawMediaType(r) ==
  /\ At(r, "RawMediaType")
  /\ \E header \in Headers :
       LET q == [req[r] EXCEPT !.header = header, !.mediaType = header]
       IN IF header = <<>>
          THEN Return(r, respondWithError(q, 400, "Missing Content-Type for thumbnail"), disk)
          ELSE Goto(r, [q EXCEPT !.header = NilStr]) /\ UNCHANGED disk
  /\ UNCHANGED <<db, s3, fnIn, fnOut>>

\* getAssetPath(videoID, mediaType) of the revision taking the raw header:
\* a key that ends in the extension of the media type
getAssetPathForVideo(assetID, mediaType) == getAssetPath(assetID, mediaType)

\* getAssetPath, getAssetDiskPath and os.Create(assetDiskPath), which creates
\* the file or truncates an existing one; the descriptor is not deferred
CreateAsset(r) ==
  /\ At(r, "CreateAsset")
  /\ \E assetID \in RandIDs :
       LET q == req[r]
           assetPath == IF q.handler = "thumbnail" THEN getAssetPath(assetID, q.mediaType)
                        ELSE getAssetPathForVideo(assetID, q.mediaType)
           assetDiskPath == getAssetDiskPath(assetsRoot, assetPath)
       IN \/ Fail(r, 500, "Couldn't create thumbnail")
          \/ /\ Goto(r, [q EXCEPT !.assetPath = assetPath, !.fds = @ \cup {"assetOnDisk"}])
             /\ disk' = CreateFile(disk, assetDiskPath, r)
  /\ UNCHANGED <<db, s3, fnIn, fnOut>>

\* io.Copy(assetOnDisk, file)
CopyAsset(r) ==
  /\ At(r, "CopyAsset")
  /\ \/ Fail(r, 500, "Couldn't save thumbnail")
     \/ Goto(r, req[r]) /\ UNCHANGED disk
  /\ UNCHANGED <<db, s3, fnIn, fnOut>>

\* thumbnailURLOld := *video.ThumbnailURL (a nil dereference when the video
\* has no thumbnail), video.ThumbnailURL = &thumbnailURL, cfg.db.UpdateVideo
UpdateThumbnail(r) ==
  /\ At(r, "UpdateThumbnail")
  /\ LET q == req[r]
         q2 == [q EXCEPT !.thumbnailURLOld = q.video.ThumbnailURL,
                         !.video.ThumbnailURL = getAssetURL(port, q.assetPath)]
     IN IF q.video.ThumbnailURL = NilStr
        THEN Panic(r, q, disk) /\ UNCHANGED db
        ELSE \/ Return(r, respondWithError(q2, 500, "Couldn't update video"), disk)
                /\ UNCHANGED db
             \/ /\ Goto(r, [q2 EXCEPT !.committed = TRUE])
                /\ db' = dbUpdateVideo(db, q2.video)
                /\ UNCHANGED disk
  /\ UNCHANGED <<s3, fnIn, fnOut>>

\* the clean-up with its failures answered as errors instead of logged
RemoveOldFatal(r) ==
  /\ At(r, "RemoveOld")
  /\ LET q == req[r]
         old == getAssetDiskPathFromURL(port, q.thumbnailURLOld)
         ok == respondWithJSON(q, 200, q.video)
     IN IF old.err # NIL
        THEN Fail(r, 500, "Invalid asset URL")
        ELSE IF old.path = <<>> THEN Return(r, ok, disk)
        ELSE IF old.path \notin Paths(disk)
        THEN Fail(r, 500, "Couldn't delete old thumbnail")
        ELSE \/ Fail(r, 500, "Couldn't delete old thumbnail")
             \/ Return(r, ok, RemoveFile(disk, old.path))
  /\ UNCHANGED <<db, s3, fnIn, fnOut>>

\* getAssetDiskPathFromURL(thumbnailURLOld) and os.Remove of the result, both
\* only logged on failure; then the response
RemoveOld(r) ==
  /\ At(r, "RemoveOld")
  /\ LET q == req[r]
         old == getAssetDiskPathFromURL(port, q.thumbnailURLOld)
         ok == respondWithJSON(q, 200, q.video)
     IN IF old.err # NIL \/ old.path = <<>> \/ old.path \notin Paths(disk)
        THEN Return(r, ok, disk)
        ELSE \/ Return(r, ok, disk)
             \/ Return(r, ok, RemoveFile(disk, old.path))
  /\ UNCHANGED <<db, s3, fnIn, fnOut>>

\* video.ThumbnailURL = &thumbnailURL and cfg.db.UpdateVideo(video); a failure
\* is answered with status 400
UpdateThumbnailRaw(r) ==
  /\ At(r, "UpdateThumbnailRaw")
  /\ LET q == req[r]
         q2 == [q EXCEPT !.video.ThumbnailURL = getAssetURL(port, q.assetPath)]
     IN \/ Return(r, respondWithError(q2, 400, "foo"), disk) /\ UNCHANGED db
        \/ /\ Goto(r, [q2 EXCEPT !.committed = TRUE])
           /\ db' = dbUpdateVideo(db, q2.video)
           /\ UNCHANGED disk
  /\ UNCHANGED <<s3, fnIn, fnOut>>

----------------------------------------------------------------------------
(* the service: requests are handled concurrently, one statement at a time *)

Next ==
  \/ \E r \in Reqs : Authenticate(r)
  \/ \E r \in Reqs : GetVideo(r)
  \/ \E r \in Reqs : CheckOwner(r)
  \/ \E r \in Reqs : FormFile(r)
  \/ \E r \in Reqs : MediaType(r)
  \/ \E r \in Reqs : RawMediaType(r)
  \/ \E r \in Reqs : CreateTemp(r)
  \/ \E r \in Reqs : DeferTemp(r)
  \/ \E r \in Reqs : CopyTemp(r)
  \/ \E r \in Reqs : Seek(r)
  \/ \E r \in Reqs : Probe(r)
  \/ \E r \in Reqs : processVideoForFastStart(r)
  \/ \E r \in Reqs : OpenProcessed(r)
  \/ \E r \in Reqs : PutObject(r)
  \/ \E r \in Reqs : UpdateVideo(r)
  \/ \E r \in Reqs : Sign(r)
  \/ \E r \in Reqs : Respond(r)
  \/ \E r \in Reqs : CreateAsset(r)
  \/ \E r \in Reqs : CopyAsset(r)
  \/ \E r \in Reqs : UpdateThumbnail(r)
  \/ \E r \in Reqs : RemoveOld(r)
  \/ \E r \in Reqs : UpdateThumbnailRaw(r)

Spec == Init /\ [][Next]_vars

\* the service handling two requests for the one video
SpecConcurrent == InitConcurrent /\ [][Next]_vars

----------------------------------------------------------------------------
(* the helpers on their own: each specification draws the arguments of one
   helper and applies it; the service does not move *)

Idle ==
  /\ req = [r \in 1..NumReqs |-> NewRequest("video")]
  /\ db = [UserID |-> "owner", VideoURL |-> NilStr, ThumbnailURL |-> NilStr]
  /\ disk = {}
  /\ s3 = {}

(* getVideoAspectRatio of both revisions on one stream of width x height *)

Dims == (-1..MaxDim) \cup {720, 768, 1000, 1080, 1280, 1366, 1920}

OneStream(width, height) ==
  [run |-> TRUE, json |-> TRUE, streams |-> << [Width |-> width, Height |-> height] >>]

InitAspect ==
  /\ Idle
  /\ fnIn \in [width : Dims, height : Dims]
  /\ fnOut = [by |-> "none", ratio |-> "", err |-> NIL]

AspectRatio ==
  /\ fnOut.by = "none"
  /\ fnOut' = [by |-> "getVideoAspectRatio"]
               @@ getVideoAspectRatio(OneStream(fnIn.width, fnIn.height))
  /\ UNCHANGED <<req, db, disk, s3, fnIn>>

AspectRatioGcd ==
  /\ fnOut.by = "none"
  /\ fnOut' = [by |-> "getVideoAspectRatioGcd"]
               @@ getVideoAspectRatioGcd(OneStream(fnIn.width, fnIn.height))
  /\ UNCHANGED <<req, db, disk, s3, fnIn>>

NextAspect == AspectRatio \/ AspectRatioGcd

SpecAspect == InitAspect /\ [][NextAspect]_vars

(* getAssetPath on a media type and 32 random bytes *)

KeyMediaTypes ==
  Headers \cup
  { <<"garbage">>, <<"a", "/", "b", "/", "c">>, <<"video", "/">>, <<"/", "mp4">>,
    <<"video", "/", "mp4", ";", "codecs=avc1">>, <<"application", "/", "x", ".", "y">> }

InitKey ==
  /\ Idle
  /\ fnIn \in [mediaType : KeyMediaTypes, assetID : RandBytes]
  /\ fnOut = [done |-> FALSE, key |-> <<>>]

AssetPath ==
  /\ ~fnOut.done
  /\ fnOut' = [done |-> TRUE, key |-> getAssetPath(fnIn.assetID, fnIn.mediaType)]
  /\ UNCHANGED <<req, db, disk, s3, fnIn>>

NextKey == AssetPath

SpecKey == InitKey /\ [][NextKey]_vars

(* the stored reference: encoded by the upload, decoded by dbVideoToSignedVideo *)

RefTokens == {"b", ",", "/"}
RefStrings == UNION { [1..n -> RefTokens] : n \in 0..MaxRefLen }

InitRef ==
  /\ Idle
  /\ fnIn \in [bucket : RefStrings, key : RefStrings]
  /\ fnOut = [by |-> "none", bucket |-> <<>>, key |-> <<>>, err |-> NIL]

\* the reference of (bucket, key) is encoded and decoded again
EncodeDecode ==
  /\ fnOut.by = "none"
  /\ fnOut' = [by |-> "roundtrip"] @@ SplitVideoURL(FileURL(fnIn.bucket, fnIn.key))
  /\ UNCHANGED <<req, db, disk, s3, fnIn>>

\* a stored string (here the bucket argument taken as the whole string) is decoded
DecodeStored ==
  /\ fnOut.by = "none"
  /\ fnOut' = [by |-> "decode"] @@ SplitVideoURL(fnIn.bucket)
  /\ UNCHANGED <<req, db, disk, s3, fnIn>>

NextRef == EncodeDecode \/ DecodeStored

SpecRef == InitRef /\ [][NextRef]_vars

----------------------------------------------------------------------------
(* properties *)

ErrorWritten(q) == \E i \in 1..Len(q.resp) : q.resp[i].status >= 400
Succeeded(q) == \E i \in 1..Len(q.resp) : q.resp[i].status = 200
FilesOf(r) == { f \in disk : f[2] = r }
ObjectsOf(r) == { o \in s3 : o[2] = r }
Contains(str, tok) == \E i \in 1..Len(str) : str[i] = tok
IsPresigned(url) == Contains(url, "X-Amz-Signature=") /\ Contains(url, "X-Amz-Expires=")

\* C1: once a video upload handler has left, by return or by panic, no file
\* that the request created (the staged file, the ".processing" file) is
\* left on disk.
C1_ScratchFilesRemoved ==
  \A r \in Reqs :
    (req[r].handler \in VideoHandlers /\ req[r].pc \in Terminal) => FilesOf(r) = {}

\* C2: in a video upload, once an error response has been written the
\* handler has returned, and it has written exactly that one response.
C2_FailureIsTerminal ==
  \A r \in Reqs :
    (req[r].handler \in VideoHandlers /\ ErrorWritten(req[r]))
      => (req[r].pc = "returned" /\ Len(req[r].resp) = 1)

\* C3: a video upload authenticated as a user who does not own the video
\* never gets past the ownership check: it has no scratch file, no object
\* and no record update, and when the handler has left it has written one
\* response, with a rejection status: 401 when the record was loaded (500
\* when the lookup itself failed).
C3_NonOwnerRejected ==
  \A r \in Reqs :
    (req[r].handler \in VideoHandlers /\ req[r].userID \notin {NIL, db.UserID})
      => /\ req[r].pc \in {"GetVideo", "CheckOwner", "returned"}
         /\ req[r].fileTmp = NilStr
         /\ FilesOf(r) = {}
         /\ ObjectsOf(r) = {}
         /\ ~req[r].committed
         /\ req[r].pc = "returned" =>
              /\ Len(req[r].resp) = 1
              /\ req[r].resp[1].status \in {401, 500}
              /\ req[r].video # NoVideo => req[r].resp[1].status = 401

C3_Witness ==
  \E r \in Reqs :
    /\ req[r].handler \in VideoHandlers
    /\ req[r].userID = "other"
    /\ req[r].video = db
    /\ req[r].pc = "returned"
    /\ req[r].resp[1].status = 401

\* the media type a request declared, once its Content-Type has been read
Declared(q) == IF q.header # NilStr THEN q.header ELSE q.mediaType
Unacceptable(q) ==
  /\ Declared(q) # NilStr
  /\ Declared(q) \notin Accepted(IF q.handler \in VideoHandlers THEN "video" ELSE "thumbnail")

\* C4: an upload whose declared media type is malformed or not accepted for
\* its kind writes no file, puts no object and does not update the record,
\* and is answered with an error status.
C4_BadMediaTypeWritesNothing ==
  \A r \in Reqs :
    Unacceptable(req[r])
      => /\ FilesOf(r) = {}
         /\ ObjectsOf(r) = {}
         /\ ~req[r].committed
         /\ ~Succeeded(req[r])

\* C5: a video upload that ends without a success response has not updated
\* the record.
C5_FailedUploadLeavesRecord ==
  \A r \in Reqs :
    (req[r].handler \in VideoHandlers /\ req[r].pc \in Terminal /\ ~Succeeded(req[r]))
      => ~req[r].committed

\* the stored forms of a video reference: "<bucket>,<key>" and the
\* permanent object URL
IsStoredForm(url) ==
  \E o \in s3 : url \in { FileURL(s3Bucket, o[1]), getObjectURL(s3Bucket, s3Region, o[1]) }

\* C6: a successful video upload answers with a presigned URL as the video
\* reference, and no response of any handler carries a stored form of the
\* reference.
C6_ResponsesCarryPresignedURL ==
  \A r \in Reqs : \A i \in 1..Len(req[r].resp) :
    LET url == req[r].resp[i].video.VideoURL
    IN /\ (req[r].handler \in VideoHandlers /\ req[r].resp[i].status = 200)
            => IsPresigned(url)
       /\ ~IsStoredForm(url)

\* C7: the record store never holds a presigned URL; after the record
\* update of the presigning video handler, also after the conversion for
\* the response, the handler's own record value holds "<bucket>,<key>", and
\* the URL in its response is derived from that reference.
C7_PresignLeavesRecord ==
  /\ ~IsPresigned(db.VideoURL)
  /\ \A r \in Reqs :
       (req[r].handler = "video" /\ req[r].committed)
         => /\ req[r].video.VideoURL = Concat(<< s3Bucket, <<",">>, req[r].fileKey >>)
            /\ \A i \in 1..Len(req[r].resp) :
                 req[r].resp[i].status = 200
                   => /\ IsPresigned(req[r].resp[i].video.VideoURL)
                      /\ req[r].resp[i].video.VideoURL # req[r].video.VideoURL

C7_Witness ==
  \E r \in Reqs :
    /\ req[r].handler = "video"
    /\ req[r].pc = "returned"
    /\ Succeeded(req[r])
    /\ db.VideoURL = Concat(<< s3Bucket, <<",">>, req[r].fileKey >>)
    /\ db = req[r].video

\* the classification the tolerance bands give in exact arithmetic, for
\* positive width and height: |width/height - 1.777| < 0.2 is
\* 1577*height < 1000*width < 1977*height, |width/height - 0.5625| < 0.2 is
\* 3625*height < 10000*width < 7625*height
BandClass(width, height) ==
  IF 1577 * height < 1000 * width /\ 1000 * width < 1977 * height THEN "16:9"
  ELSE IF 3625 * height < 10000 * width /\ 10000 * width < 7625 * height THEN "9:16"
  ELSE "other"

\* C8: for positive width and height, getVideoAspectRatio returns the
\* classification of the tolerance bands, in either revision.
C8_ClassifiesByBands ==
  (fnOut.by # "none" /\ fnIn.width > 0 /\ fnIn.height > 0)
    => (fnOut.err = NIL /\ fnOut.ratio = BandClass(fnIn.width, fnIn.height))

\* base64 URL decoding of a padded string, written from the alphabet
DecodeChar(c) == CHOOSE n \in 0..63 : encodeURL[n + 1] = c
RECURSIVE DecodeString(_)
DecodeString(str) ==
  IF Len(str) < 4 THEN <<>>
  ELSE LET a == DecodeChar(str[1])
           b == DecodeChar(str[2])
           first == a * 4 + b \div 16
       IN IF str[3] = "=" THEN <<first>>
          ELSE LET c == DecodeChar(str[3])
                   second == (b % 16) * 16 + c \div 4
               IN IF str[4] = "=" THEN <<first, second>>
                  ELSE <<first, second, (c % 4) * 64 + DecodeChar(str[4])>>
                       \o DecodeString(SubSeq(str, 5, Len(str)))

\* length of the padded base64 text of an asset id
EncodedLen == 4 * ((AssetIDLen + 2) \div 3)

\* C9: the key getAssetPath returns is the URL-safe base64 text of the 32
\* random bytes followed by the extension: "." and the subtype when the
\* media type has exactly one "/", ".bin" otherwise.
C9_KeyEndsInExtension ==
  fnOut.done =>
    LET mt == fnIn.mediaType
        key == fnOut.key
        slashes == { i \in 1..Len(mt) : mt[i] = "/" }
        ext == IF Cardinality(slashes) = 1
               THEN <<".">> \o SubSeq(mt, (CHOOSE i \in slashes : TRUE) + 1, Len(mt))
               ELSE <<".", "bin">>
    IN /\ Len(key) = EncodedLen + Len(ext)
       /\ SubSeq(key, EncodedLen + 1, Len(key)) = ext
       /\ \A i \in 1..EncodedLen :
            key[i] = "=" \/ \E n \in 1..Len(encodeURL) : encodeURL[n] = key[i]
       /\ DecodeString(SubSeq(key, 1, EncodedLen)) = fnIn.assetID

C9_Witness ==
  /\ fnOut.done
  /\ fnIn.mediaType = <<"a", "/", "b", "/", "c">>
  /\ SubSeq(fnOut.key, Len(fnOut.key) - 1, Len(fnOut.key)) = <<".", "bin">>
  /\ Contains(fnOut.key, "_")

\* C10: a reference encoded as "<bucket>,<key>" decodes to the bucket and
\* the key it was made from, for every bucket and key; a stored string with
\* fewer than two comma-separated pieces fails to decode.
C10_ReferenceRoundTrip ==
  /\ fnOut.by = "roundtrip"
       => (fnOut.err = NIL /\ fnOut.bucket = fnIn.bucket /\ fnOut.key = fnIn.key)
  /\ (fnOut.by = "decode" /\ ~Contains(fnIn.bucket, ","))
       => fnOut.err # NIL

\* the staged path, the ".processing" path and the key a request holds
ScratchOf(q) == { p \in {q.fileTmp, q.fileProcessedPath} : p # NilStr }
KeyOf(q) == IF q.handler \in VideoHandlers THEN q.fileKey ELSE q.assetPath

\* C11: two upload requests, concurrent or sequential, never hold the same
\* staged path, the same ".processing" path or the same key, and while a
\* handler runs the files at its scratch paths are the ones it created.
C11_RequestsShareNothing ==
  \A r1 \in Reqs :
    /\ \A r2 \in Reqs \ {r1} :
         /\ ScratchOf(req[r1]) \cap ScratchOf(req[r2]) = {}
         /\ KeyOf(req[r1]) # NilStr => KeyOf(req[r1]) # KeyOf(req[r2])
    /\ req[r1].pc \notin Terminal =>
         \A p \in ScratchOf(req[r1]) : \A f \in disk : f[1] = p => f[2] = r1

\* the stream list ffprobe's output parsed to, when it ran and its output parsed
ParsedStreams(q) == IF q.probed /\ q.probeOut.run /\ q.probeOut.json
                    THEN {q.probeOut.streams} ELSE {}

\* C12: a video upload whose probe parsed zero streams has returned (it has
\* not panicked) with one error response, has stored no object and has not
\* updated the record.
C12_ZeroStreamsReported ==
  \A r \in Reqs :
    (req[r].handler \in VideoHandlers /\ ParsedStreams(req[r]) = {<<>>})
      => /\ req[r].pc = "returned"
         /\ Len(req[r].resp) = 1
         /\ req[r].resp[1].status >= 400
         /\ ObjectsOf(r) = {}
         /\ ~req[r].committed

\* str ends with the tokens of suffix
HasSuffix(str, suffix) ==
  /\ Len(suffix) <= Len(str)
  /\ SubSeq(str, Len(str) - Len(suffix) + 1, Len(str)) = suffix

\* the request's probe parsed one stream of width x height
ProbedDims(q, width, height) ==
  ParsedStreams(q) = { << [Width |-> width, Height |-> height] >> }

\* C13: in a video upload that answered with success the key is the segment
\* of the classification ("landscape" for 16:9, "portrait" for 9:16, "other"
\* otherwise), "/", and the generated key, which has no "/" of its own; a
\* 1280x720 upload has the segment "landscape"; the object is stored under
\* that key and the record the handler wrote ends in that key.  The key of
\* a thumbnail has no "/".
C13_KeyIsPrefixedByClass ==
  \A r \in Reqs :
    LET q == req[r]
        key == q.fileKey
        segment == IF q.aspectRatio = "16:9" THEN "landscape"
                   ELSE IF q.aspectRatio = "9:16" THEN "portrait"
                   ELSE "other"
    IN /\ (q.handler \in VideoHandlers /\ Succeeded(q))
            => /\ Len(key) = 2 + EncodedLen + 2
               /\ key[1] = segment
               /\ key[2] = "/"
               /\ ~Contains(SubSeq(key, 3, Len(key)), "/")
               /\ HasSuffix(key, <<".", "mp4">>)
               /\ ProbedDims(q, 1280, 720) => key[1] = "landscape"
               /\ \E o \in s3 : o[1] = key
               /\ q.committed
               /\ HasSuffix(q.video.VideoURL, key)
       /\ (q.handler = "thumbnail" /\ q.assetPath # NilStr)
            => /\ ~Contains(q.assetPath, "/")
               /\ Len(q.assetPath) = EncodedLen + 2

C13_Witness ==
  \E r \in Reqs :
    /\ req[r].handler \in VideoHandlers
    /\ req[r].pc = "returned"
    /\ Succeeded(req[r])
    /\ ProbedDims(req[r], 1280, 720)
    /\ SubSeq(req[r].fileKey, 1, 2) = <<"landscape", "/">>
    /\ <<req[r].fileKey, r>> \in s3
    /\ HasSuffix(db.VideoURL, req[r].fileKey)

\* the error responses about the declared content type
ContentTypeErrors ==
  {"Invalid Content-Type", "Invalid media type", "Missing Content-Type for thumbnail"}

\* C14: a request authenticated as a user who does not own the video never
\* has its declared content type examined: it is never answered with a
\* content-type error, and once its handler has loaded the record and
\* returned, its one response is the ownership rejection.
C14_OwnershipBeforeContentType ==
  \A r \in Reqs :
    req[r].userID \notin {NIL, db.UserID}
      => /\ Declared(req[r]) = NilStr
         /\ \A i \in 1..Len(req[r].resp) : req[r].resp[i].msg \notin ContentTypeErrors
         /\ (req[r].pc = "returned" /\ req[r].video # NoVideo)
              => /\ Len(req[r].resp) = 1
                 /\ req[r].resp[1].status = 401
                 /\ req[r].resp[1].msg = "Insufficient rights"

\* C15: when a handler has left, by return or by panic, every descriptor
\* the request opened (the multipart file, the staged file, the remuxed
\* file, the thumbnail file under the assets root) is closed.
C15_DescriptorsClosed ==
  \A r \in Reqs : req[r].pc \in Terminal => req[r].fds = {}

\* p lies under the assets root
UnderAssetsRoot(p) ==
  /\ Len(p) > Len(assetsRoot)
  /\ SubSeq(p, 1, Len(assetsRoot) + 1) = assetsRoot \o <<"/">>

\* a thumbnail upload that has committed its record update is at the
\* clean-up or has returned; its record value names the new file; when it
\* has returned, it has answered once, with success and that record
ThumbnailCommittedSucceeds ==
  \A r \in Reqs :
    (req[r].handler = "thumbnail" /\ req[r].committed)
      => /\ req[r].pc \in {"RemoveOld", "returned"}
         /\ HasSuffix(req[r].video.ThumbnailURL, <<"/">> \o req[r].assetPath)
         /\ req[r].pc = "returned"
              => /\ Len(req[r].resp) = 1
                 /\ req[r].resp[1].status = 200
                 /\ req[r].resp[1].video = req[r].video

\* a step that commits a thumbnail upload writes the new reference to the
\* record and removes no file
ThumbnailCommitStep ==
  \A r \in Reqs :
    (req[r].handler = "thumbnail" /\ ~req[r].committed /\ req'[r].committed)
      => /\ db'.ThumbnailURL = req'[r].video.ThumbnailURL
         /\ req'[r].thumbnailURLOld = req[r].video.ThumbnailURL
         /\ disk' = disk

\* a step that removes a file under the assets root is the clean-up of a
\* thumbnail upload that has committed, and that upload answers with success
ThumbnailRemoveStep ==
  \A p \in Paths(disk) \ Paths(disk') :
    UnderAssetsRoot(p)
      => \E r \in Reqs :
           /\ req[r].handler = "thumbnail"
           /\ req[r].pc = "RemoveOld"
           /\ req[r].committed
           /\ req[r].thumbnailURLOld = Concat(<< <<"http://localhost:">>, port, <<"/">>, p >>)
           /\ req'[r].pc = "returned"
           /\ Succeeded(req'[r])

\* C16: in handlerUploadThumbnail the previous thumbnail file is deleted
\* only after the record update has committed, and whether the previous
\* path cannot be derived, the deletion fails or it succeeds, the request
\* answers with success and the record it wrote holds the new reference.
C16_CleanupIsBestEffort ==
  /\ []ThumbnailCommittedSucceeds
  /\ [][ThumbnailCommitStep /\ ThumbnailRemoveStep]_vars

\* the previous thumbnail was to be replaced, its deletion failed, and the
\* upload has answered with success and the record names the new file
C16_Witness ==
  \E r \in Reqs :
    /\ req[r].handler = "thumbnail"
    /\ req[r].pc = "returned"
    /\ Succeeded(req[r])
    /\ req[r].thumbnailURLOld = getAssetURL(port, OldThumbnail)
    /\ getAssetDiskPath(assetsRoot, OldThumbnail) \in Paths(disk)
    /\ getAssetDiskPath(assetsRoot, req[r].assetPath) \in Paths(disk)
    /\ db.ThumbnailURL = getAssetURL(port, req[r].assetPath)

\* the first stream the request's probe parsed has a width or a height that
\* is zero or negative
BadDimensions(q) ==
  \E streams \in ParsedStreams(q) :
    /\ Len(streams) > 0
    /\ streams[1].Width <= 0 \/ streams[1].Height <= 0

\* C17: a video upload whose first stream has a zero or negative width or
\* height is not classified: it has returned with one error response, has
\* stored no object and has not updated the record.
C17_BadDimensionsReported ==
  \A r \in Reqs :
    (req[r].handler \in VideoHandlers /\ BadDimensions(req[r]))
      => /\ req[r].aspectRatio = ""
         /\ req[r].pc = "returned"
         /\ Len(req[r].resp) = 1
         /\ req[r].resp[1].status >= 400
         /\ ObjectsOf(r) = {}
         /\ ~req[r].committed

\* the file the record's thumbnail reference names, when the reference
\* starts with this service's base URL
ThumbnailFileOf(record) ==
  IF record.ThumbnailURL = NilStr THEN {}
  ELSE LET old == getAssetDiskPathFromURL(port, record.ThumbnailURL)
       IN IF old.err # NIL THEN {} ELSE {old.path}

\* C18: when a video upload and a thumbnail upload for the same video have
\* both answered with success and no other request has written the record,
\* the record holds the video reference of the one and the thumbnail
\* reference of the other, and the thumbnail file it names is on disk.
C18_BothUploadsKept ==
  \A v \in Reqs : \A t \in Reqs :
    ( /\ req[v].handler \in VideoHandlers
      /\ req[t].handler \in ThumbnailHandlers
      /\ req[v].pc = "returned" /\ Succeeded(req[v])
      /\ req[t].pc = "returned" /\ Succeeded(req[t]) )
      => /\ db.VideoURL = req[v].video.VideoURL
         /\ db.ThumbnailURL = req[t].video.ThumbnailURL
         /\ ThumbnailFileOf(db) \subseteq Paths(disk)

\* C19: a thumbnail upload never panics; in particular it does not end
\* abnormally with its new file written and the record not updated, and an
\* upload by the owner with an accepted content type for a video that has no
\* thumbnail reference, once its file is written, ends with success and the
\* record updated unless one of its steps reported a failure.
C19_AbsentThumbnailAccepted ==
  \A r \in Reqs :
    req[r].handler \in ThumbnailHandlers
      => /\ req[r].pc # "panicked"
         /\ (req[r].pc = "returned" /\ FilesOf(r) # {} /\ ~ErrorWritten(req[r]))
              => (Succeeded(req[r]) /\ req[r].committed)

====
